---- MODULE Spec2Model ----
(***************************************************************************)
(* The range search of the Micetro Ansible extensions: the findrange       *)
(* module (library/findrange.py) and the freerange lookup                  *)
(* (lookup_plugins/freerange.py).  One behaviour is one invocation of one  *)
(* of the two against an IPAM service holding a forest of ranges.          *)
(* Strings are sequences of one-character strings, so that split, int,     *)
(* strip, lower and "in" are computed and not assumed.                     *)
(***************************************************************************)
EXTENDS Integers, Sequences, FiniteSets, TLC

\* Number of ranges the service holds.
MaxRanges == 2

\* The literal the descent test compares the prefix length with.
DescentCutoff == 28

PrefixLengths == {26, 28, 30}

\* Zones of the service: the address part of a range name.
Addresses == {"a", "b"}

\* customProperties.Title of a range, when it has one.
RangeTitle == <<"F", "R", "1">>

\* The title argument.
TitleTexts == {<<>>, <<"f", "r">>, <<"F", "r">>}

\* The new_title argument ("" is its default).
NewTitles == {<<>>, <<"r", "e", "s">>}

\* The network argument: a CIDR, a padded network name, an empty entry.
NetCidr == <<"a", "/", "2", "4">>
NetName == <<"n", " ">>
NetEmpty == <<>>
NetworkLists ==
    { <<NetCidr>>, <<NetName, NetCidr>>, <<NetEmpty, NetCidr>> }

\* The text of the warnings field of a failed API call.
ServiceWarning == <<"e", "r", "r">>

VARIABLES
    variant,               \* "module" (findrange) or "lookup" (freerange)
    check_mode,            \* module.check_mode
    network,               \* the network argument as passed
    target_prefix_length,
    title_text,
    new_title_text,
    forest,                \* the service's ranges when the run starts
    titles,                \* the service's current customProperties per range
    pc,                    \* "networks", "ranges", "children", "done"
    netIdx,                \* position of the loop over networks
    net_ranges,            \* ranges of the last filter query
    rangeIdx,              \* position of the loop over net_ranges
    stack,                 \* recurse_ranges frames: range_obj and next child
    calls,                 \* every doapi call issued, in order
    warned,                \* some response carried warnings
    result                 \* how the run ended

vars == <<variant, check_mode, network, target_prefix_length, title_text,
          new_title_text, forest, titles, pc, netIdx, net_ranges, rangeIdx,
          stack, calls, warned, result>>

inputs == <<variant, check_mode, network, target_prefix_length, title_text,
            new_title_text, forest>>

-----------------------------------------------------------------------------
(* Python string and dict operations *)

Digit == <<"0", "1", "2", "3", "4", "5", "6", "7", "8", "9">>

IsDigit(c) == \E d \in 1..10 : Digit[d] = c

DigitValue(c) == (CHOOSE d \in 1..10 : Digit[d] = c) - 1

\* str(n) for 0 <= n <= 99, as the service writes a prefix length.
ToDigits(n) == IF n < 10 THEN <<Digit[n + 1]>>
               ELSE <<Digit[(n \div 10) + 1], Digit[(n % 10) + 1]>>

\* int(s) succeeds on a non-empty string of decimal digits.
IsInt(s) == Len(s) > 0 /\ \A i \in 1..Len(s) : IsDigit(s[i])

RECURSIVE IntOf(_)
IntOf(s) == IF s = <<>> THEN 0
            ELSE 10 * IntOf(SubSeq(s, 1, Len(s) - 1)) + DigitValue(s[Len(s)])

\* s.split("/")
RECURSIVE Split(_)
Split(s) ==
    IF \A i \in 1..Len(s) : s[i] # "/" THEN <<s>>
    ELSE LET i == CHOOSE k \in 1..Len(s) :
                      s[k] = "/" /\ \A j \in 1..(k - 1) : s[j] # "/"
         IN <<SubSeq(s, 1, i - 1)>> \o Split(SubSeq(s, i + 1, Len(s)))

\* s.strip()
RECURSIVE Strip(_)
Strip(s) == IF s = <<>> THEN s
            ELSE IF s[1] = " " THEN Strip(Tail(s))
            ELSE IF s[Len(s)] = " " THEN Strip(SubSeq(s, 1, Len(s) - 1))
            ELSE s

LowerChar(c) == IF c = "F" THEN "f" ELSE IF c = "R" THEN "r" ELSE c

\* s.lower()
Lower(s) == [i \in 1..Len(s) |-> LowerChar(s[i])]

\* sub in s
Contains(sub, s) ==
    \E i \in 0..(Len(s) - Len(sub)) : SubSeq(s, i + 1, i + Len(sub)) = sub

\* d.get(key, default) on a dict held as a set of <<key, value>> pairs
DictGet(d, key, default) ==
    IF \E p \in d : p[1] = key THEN (CHOOSE p \in d : p[1] = key)[2]
    ELSE default

-----------------------------------------------------------------------------
(* The service *)

RangeRefs == <<"Ranges/1", "Ranges/2", "Ranges/3", "Ranges/4", "Ranges/5">>

Ranges == 1..MaxRanges

RangeRef(i) == RangeRefs[i]

IndexOf(ref) == CHOOSE i \in Ranges : RangeRef(i) = ref

\* Forests: parent[i] < i, 0 for a top-level range; a child lies inside its
\* parent, so it has the parent's address and a longer prefix.  The zones
\* differ in name only, and the first range is put in zone "a".
Forests ==
    { f \in [Ranges -> [parent : 0..(MaxRanges - 1), address : Addresses,
                        prefix : PrefixLengths, hasTitle : BOOLEAN]] :
        /\ f[1].address = "a"
        /\ \A i \in Ranges :
            /\ f[i].parent < i
            /\ f[i].parent # 0 =>
                  /\ f[f[i].parent].prefix < f[i].prefix
                  /\ f[f[i].parent].address = f[i].address }

Name(f, i) == <<f[i].address, "/">> \o ToDigits(f[i].prefix)

RECURSIVE ChildList(_, _, _)
ChildList(f, i, k) ==
    IF k > MaxRanges THEN <<>>
    ELSE (IF f[k].parent = i THEN <<k>> ELSE <<>>) \o ChildList(f, i, k + 1)

\* A range as the service hands it out, with customProperties props.
ObjectOf(i, props) ==
    LET kids == ChildList(forest, i, 1)
    IN [name |-> Name(forest, i),
        ref |-> RangeRef(i),
        customProperties |-> props,
        childRanges |-> [k \in 1..Len(kids) |-> [ref |-> RangeRef(kids[k])]]]

\* The payload of "GET <range-ref>": result.range
RangeObject(i) == ObjectOf(i, titles[i])

\* customProperties of a range when the run starts
StartProps(i) == IF forest[i].hasTitle THEN {<<"Title", RangeTitle>>} ELSE {}

\* The zone a filter selects: the CIDR's address, the zone the name stands
\* for, or every zone for an empty filter.
FilterAddresses(filter) ==
    IF filter = <<>> THEN Addresses
    ELSE IF Len(Split(filter)) = 2 THEN {Split(filter)[1][1]}
    ELSE {"b"}

\* The top-level ranges a filter selects, in the service's order.
Roots(filter) ==
    SelectSeq(ChildList(forest, 0, 1),
              LAMBDA r : forest[r].address \in FilterAddresses(filter))

\* The payload of "GET Ranges?filter=<network>": result.ranges
RangesQuery(filter) ==
    LET tops == Roots(filter)
    IN [k \in 1..Len(tops) |-> RangeObject(tops[k])]

\* What doapi hands back: the payload, the payload with a warnings field, or
\* only a warnings field.
Responses == {"ok", "warnings", "warnings_only"}

-----------------------------------------------------------------------------
(* The run *)

Modes ==
    [variant : {"module"}, check_mode : BOOLEAN, new_title : NewTitles]
    \cup [variant : {"lookup"}, check_mode : {FALSE}, new_title : {<<>>}]

Running == [status |-> "running", changed |-> FALSE, message |-> <<>>]

\* module.exit_json(**module_result)
ExitJson(changed, message) ==
    [status |-> "exit_json", changed |-> changed, message |-> message]

\* module.fail_json(msg=...)
FailJson(msg) == [status |-> "fail_json", changed |-> FALSE, message |-> msg]

\* the value LookupModule.run returns
Returned(list) == [status |-> "return", changed |-> FALSE, message |-> list]

\* an exception no handler catches (ValueError, KeyError, AttributeError)
Raised == [status |-> "raise", changed |-> FALSE, message |-> <<>>]

NotFoundMsg ==
    <<"No acceptable /">> \o ToDigits(target_prefix_length)
        \o <<" range found in the provided network(s).">>

Init ==
    /\ \E m \in Modes :
          /\ variant = m.variant
          /\ check_mode = m.check_mode
          /\ new_title_text = m.new_title
    /\ network \in NetworkLists
    /\ target_prefix_length \in PrefixLengths
    /\ title_text \in TitleTexts
    /\ forest \in Forests
    /\ titles = [i \in Ranges |-> StartProps(i)]
    /\ pc = "networks"
    /\ netIdx = 1
    /\ net_ranges = <<>>
    /\ rangeIdx = 1
    /\ stack = <<>>
    /\ calls = <<>>
    /\ warned = FALSE
    /\ result = Running

\* Networks, had the entries been validated as address/prefix.
NetworksCidrOnly ==
    LET kept == SelectSeq(network,
                          LAMBDA net : Len(Split(Strip(net))) = 2
                                       /\ IsInt(Split(Strip(net))[2]))
    IN [k \in 1..Len(kept) |-> Strip(kept[k])]

\* networks: the module drops empty entries and strips the others, the
\* lookup strips every entry.
Networks ==
    IF variant = "module"
    THEN LET kept == SelectSeq(network, LAMBDA net : net # <<>>)
         IN [k \in 1..Len(kept) |-> Strip(kept[k])]
    ELSE [k \in 1..Len(network) |-> Strip(network[k])]

GetCall(url, databody) ==
    [method |-> "GET", url |-> url, databody |-> databody]

PutCall(range_ref) ==
    [method |-> "PUT", url |-> range_ref,
     databody |-> <<"ref", range_ref, "Title", new_title_text,
                    "saveComment", "Ansible API">>]

\* Matches, had the prefix length been left out of the test.
MatchesTitleOnly(range_obj) ==
    Contains(title_text,
             Lower(DictGet(range_obj.customProperties, "Title", <<>>)))

\* The match test of recurse_ranges.
Matches(range_obj) ==
    /\ IntOf(Split(range_obj.name)[2]) = target_prefix_length
    /\ Contains(title_text,
                Lower(DictGet(range_obj.customProperties, "Title", <<>>)))

\* The descent test of recurse_ranges.
Descends(range_obj) ==
    /\ IntOf(Split(range_obj.name)[2]) < DescentCutoff
    /\ range_obj.childRanges # <<>>

\* The run stops with outcome r.
Stop(r, stk, log, w) ==
    /\ pc' = "done"
    /\ result' = r
    /\ stack' = stk
    /\ calls' = log
    /\ warned' = w
    /\ UNCHANGED <<netIdx, net_ranges, rangeIdx>>

\* Unwind, had a frame stayed on the stack after its loop.
UnwindNothing(stk) == stk

RECURSIVE Unwind(_)

\* The frames left once every recurse_ranges whose loop over childRanges is
\* over has returned to its caller.
Unwind(stk) ==
    IF stk # <<>>
       /\ stk[Len(stk)].idx > Len(stk[Len(stk)].range_obj.childRanges)
    THEN Unwind(SubSeq(stk, 1, Len(stk) - 1))
    ELSE stk

\* recurse_ranges found nothing at a range: the loops that called it go on,
\* over the children of the innermost frame with children left, or over
\* net_ranges and then the networks.
Continue(stk, log, w) ==
    /\ result' = result
    /\ stack' = Unwind(stk)
    /\ calls' = log
    /\ warned' = w
    /\ titles' = titles
    /\ net_ranges' = net_ranges
    /\ IF Unwind(stk) # <<>>
       THEN pc' = "children" /\ UNCHANGED <<netIdx, rangeIdx>>
       ELSE IF rangeIdx < Len(net_ranges)
       THEN pc' = "ranges" /\ rangeIdx' = rangeIdx + 1 /\ netIdx' = netIdx
       ELSE pc' = "networks" /\ rangeIdx' = rangeIdx /\ netIdx' = netIdx + 1

\* ModuleMatch, had check mode not been tested before the PUT.
ModuleMatchIgnoresCheckMode(range_obj, stk, log, w) ==
    IF new_title_text # <<>>
    THEN \E resp \in Responses :
           IF resp # "ok"
           THEN /\ Stop(FailJson(ServiceWarning), stk,
                        Append(log, PutCall(range_obj.ref)), TRUE)
                /\ titles' = titles
           ELSE /\ Stop(ExitJson(TRUE, range_obj.name), stk,
                        Append(log, PutCall(range_obj.ref)), w)
                /\ titles' = [titles EXCEPT ![IndexOf(range_obj.ref)] =
                                 {<<"Title", new_title_text>>}]
    ELSE /\ Stop(ExitJson(FALSE, range_obj.name), stk, log, w)
         /\ titles' = titles

\* The matching branch of the module: the PUT, changed, exit_json.
ModuleMatch(range_obj, stk, log, w) ==
    IF new_title_text # <<>> /\ ~check_mode
    THEN \E resp \in Responses :
           IF resp # "ok"
           THEN /\ Stop(FailJson(ServiceWarning), stk,
                        Append(log, PutCall(range_obj.ref)), TRUE)
                /\ titles' = titles
           ELSE /\ Stop(ExitJson(TRUE, range_obj.name), stk,
                        Append(log, PutCall(range_obj.ref)), w)
                /\ titles' = [titles EXCEPT ![IndexOf(range_obj.ref)] =
                                 {<<"Title", new_title_text>>}]
    ELSE /\ Stop(ExitJson(new_title_text # <<>>, range_obj.name), stk, log, w)
         /\ titles' = titles

\* LookupMatch, had the result of recurse_ranges been dropped by its caller.
LookupMatchDropped(range_obj, stk, log, w) == Continue(stk, log, w)

\* The matching branch of the lookup: [curr_cidr] goes up through every frame.
LookupMatch(range_obj, stk, log, w) ==
    /\ Stop(Returned(<<range_obj.name>>), stk, log, w)
    /\ titles' = titles

\* recurse_ranges(range_obj), up to its first child GET.
Recurse(range_obj, stk, log, w) ==
    IF Len(Split(range_obj.name)) # 2 \/ ~IsInt(Split(range_obj.name)[2])
    THEN Stop(Raised, stk, log, w) /\ titles' = titles
    ELSE IF Matches(range_obj)
    THEN IF variant = "module"
         THEN ModuleMatch(range_obj, stk, log, w)
         ELSE LookupMatch(range_obj, stk, log, w)
    ELSE IF Descends(range_obj)
    THEN /\ pc' = "children"
         /\ stack' = Append(stk, [range_obj |-> range_obj, idx |-> 1])
         /\ calls' = log
         /\ warned' = w
         /\ UNCHANGED <<result, titles, netIdx, net_ranges, rangeIdx>>
    ELSE Continue(stk, log, w)

\* doapi_with_errcheck fails the module on warnings; the lookup calls doapi
\* and reads the payload, which raises when there is none.
Aborts(resp) ==
    IF variant = "module" THEN resp # "ok" ELSE resp = "warnings_only"

Abort(log) ==
    /\ Stop(IF variant = "module" THEN FailJson(ServiceWarning) ELSE Raised,
            stack, log, TRUE)
    /\ titles' = titles

\* One turn of the loop over networks: the filter query.
QueryNetwork ==
    /\ pc = "networks"
    /\ netIdx <= Len(Networks)
    /\ \E resp \in Responses,
          log \in {Append(calls,
                          GetCall("Ranges", <<"filter", Networks[netIdx]>>))},
          found \in {RangesQuery(Networks[netIdx])} :
             IF Aborts(resp) THEN Abort(log)
             ELSE /\ calls' = log
                  /\ warned' = (warned \/ resp # "ok")
                  /\ UNCHANGED <<result, titles, stack>>
                  /\ IF found = <<>>
                     THEN /\ pc' = "networks"
                          /\ netIdx' = netIdx + 1
                          /\ UNCHANGED <<net_ranges, rangeIdx>>
                     ELSE /\ pc' = "ranges"
                          /\ netIdx' = netIdx
                          /\ net_ranges' = found
                          /\ rangeIdx' = 1
    /\ UNCHANGED inputs

\* One turn of the loop over net_ranges: recurse_ranges(net_range).
VisitRange ==
    /\ pc = "ranges"
    /\ \E range_obj \in {net_ranges[rangeIdx]} :
          Recurse(range_obj, <<>>, calls, warned)
    /\ UNCHANGED inputs

\* One turn of the loop over childRanges: the child GET and the recursion.
FetchChild ==
    /\ pc = "children"
    /\ \E top \in {stack[Len(stack)]} :
          /\ top.idx <= Len(top.range_obj.childRanges)
          /\ \E resp \in Responses,
                child_ref \in {top.range_obj.childRanges[top.idx].ref} :
                \E log \in {Append(calls, GetCall(child_ref, <<>>))},
                   stk \in {[stack EXCEPT ![Len(stack)].idx = top.idx + 1]},
                   range_obj \in {RangeObject(IndexOf(child_ref))} :
                   IF Aborts(resp) THEN Abort(log)
                   ELSE Recurse(range_obj, stk, log, warned \/ resp # "ok")
    /\ UNCHANGED inputs

\* The loop over networks is over: no range was acceptable.
NotFound ==
    /\ pc = "networks"
    /\ netIdx > Len(Networks)
    /\ Stop(IF variant = "module" THEN FailJson(NotFoundMsg)
            ELSE Returned(<<>>), stack, calls, warned)
    /\ titles' = titles
    /\ UNCHANGED inputs

Next == QueryNetwork \/ VisitRange \/ FetchChild \/ NotFound

Spec == Init /\ [][Next]_vars

\* Nothing but the run itself is scheduled: a step that can be taken is taken.
\* The runs checked for termination: every forest and target, searched in
\* both zones for the title "fr" by the lookup and by the module that writes
\* the new title.
LiveInit ==
    /\ Init
    /\ title_text = <<"f", "r">>
    /\ network = <<NetName, NetCidr>>
    /\ variant = "module" => (~check_mode /\ new_title_text # <<>>)

LiveSpec == LiveInit /\ [][Next]_vars /\ WF_vars(Next)

-----------------------------------------------------------------------------
(* The search as a function of the arguments and of the service: what       *)
(* recurse_ranges and the two loops yield when no response carries warnings *)

Nothing == [hit |-> <<>>, gets |-> <<>>]

RECURSIVE Walk(_), WalkAll(_, _, _)

\* recurse_ranges on range i: the range it finds and the child GETs it issues
Walk(i) ==
    LET range_obj == ObjectOf(i, StartProps(i))
    IN IF Matches(range_obj) THEN [hit |-> <<i>>, gets |-> <<>>]
       ELSE IF Descends(range_obj)
       THEN WalkAll(ChildList(forest, i, 1), 1, TRUE)
       ELSE Nothing

\* the loop over list from position k on; fetch: each element is fetched first
WalkAll(list, k, fetch) ==
    IF k > Len(list) THEN Nothing
    ELSE LET get == IF fetch THEN <<GetCall(RangeRef(list[k]), <<>>)>>
                    ELSE <<>>
             here == Walk(list[k])
             rest == WalkAll(list, k + 1, fetch)
         IN IF here.hit # <<>>
            THEN [hit |-> here.hit, gets |-> get \o here.gets]
            ELSE [hit |-> rest.hit, gets |-> get \o here.gets \o rest.gets]

RECURSIVE SearchFrom(_, _)

\* the loop over networks nets from position k on
SearchFrom(nets, k) ==
    IF k > Len(nets) THEN Nothing
    ELSE LET get == <<GetCall("Ranges", <<"filter", nets[k]>>)>>
             here == WalkAll(Roots(nets[k]), 1, FALSE)
             rest == SearchFrom(nets, k + 1)
         IN IF here.hit # <<>>
            THEN [hit |-> here.hit, gets |-> get \o here.gets]
            ELSE [hit |-> rest.hit, gets |-> get \o here.gets \o rest.gets]

Search(nets) == SearchFrom(nets, 1)

-----------------------------------------------------------------------------
(* Vocabulary of the claims *)

Done == pc = "done"

Gets == SelectSeq(calls, LAMBDA c : c.method = "GET")

Puts == SelectSeq(calls, LAMBDA c : c.method = "PUT")

ChildGets == SelectSeq(calls, LAMBDA c : c.method = "GET" /\ c.url # "Ranges")

RangesGets == SelectSeq(calls, LAMBDA c : c.method = "GET" /\ c.url = "Ranges")

\* The match condition as the specification words it.
Qualifies(i) ==
    /\ forest[i].prefix = target_prefix_length
    /\ Contains(Lower(title_text), Lower(DictGet(StartProps(i), "Title", <<>>)))

RECURSIVE Preorder(_), PreorderAll(_, _)

\* Depth-first order below range i, and over a list of ranges.
Preorder(i) == <<i>> \o PreorderAll(ChildList(forest, i, 1), 1)

PreorderAll(list, k) ==
    IF k > Len(list) THEN <<>>
    ELSE Preorder(list[k]) \o PreorderAll(list, k + 1)

RECURSIVE TraversalFrom(_)

TraversalFrom(k) ==
    IF k > Len(Networks) THEN <<>>
    ELSE PreorderAll(Roots(Networks[k]), 1) \o TraversalFrom(k + 1)

\* The forest the service returns for the networks, in traversal order.
Traversal == TraversalFrom(1)

Served == {Traversal[k] : k \in 1..Len(Traversal)}

QualifyingInOrder == SelectSeq(Traversal, Qualifies)

FirstIndex(i) == CHOOSE k \in 1..Len(Traversal) :
                     Traversal[k] = i /\ \A j \in 1..(k - 1) : Traversal[j] # i

\* The run reports range i as found.
Found(i) ==
    IF variant = "module"
    THEN result = ExitJson(new_title_text # <<>>, Name(forest, i))
    ELSE result = Returned(<<Name(forest, i)>>)

\* The run reports that no range was found.
NotFoundReported ==
    IF variant = "module" THEN result = FailJson(NotFoundMsg)
    ELSE result = Returned(<<>>)

\* The title PUT of range i.
TitlePut(i) ==
    [method |-> "PUT", url |-> RangeRef(i),
     databody |-> <<"ref", RangeRef(i), "Title", new_title_text,
                    "saveComment", "Ansible API">>]

Mutating == variant = "module" /\ new_title_text # <<>> /\ ~check_mode

\* The network argument as the module reads it, and stripped only.
StrippedAll == [k \in 1..Len(network) |-> Strip(network[k])]

StrippedNonEmpty ==
    LET kept == SelectSeq(network, LAMBDA net : net # <<>>)
    IN [k \in 1..Len(kept) |-> Strip(kept[k])]

Parseable(net) == Len(Split(net)) = 2 /\ IsInt(Split(net)[2])

-----------------------------------------------------------------------------
(* C1 *)

\* C1: when the forest the service returns holds exactly one qualifying
\* range (prefix length equal to the target, title containing the title
\* substring), the run reports that range's CIDR, and a module run with
\* new_title outside check mode issues exactly one PUT, to that range's ref,
\* with Title = new_title.
C1_UniqueQualifyingFound ==
    (Done /\ ~warned /\ Cardinality({i \in Served : Qualifies(i)}) = 1) =>
        LET q == CHOOSE i \in Served : Qualifies(i)
        IN /\ Found(q)
           /\ Mutating => Puts = <<TitlePut(q)>>

(* C2 *)

\* C2: first match wins: the run reports the first qualifying range of the
\* depth-first order, no child GET is issued for a range that comes after
\* it, and no other range receives a PUT (at most one PUT per run).
C2_FirstMatchWins ==
    (Done /\ ~warned /\ QualifyingInOrder # <<>>) =>
        LET q == QualifyingInOrder[1]
        IN /\ Found(q)
           /\ \A k \in 1..Len(ChildGets) :
                 FirstIndex(IndexOf(ChildGets[k].url)) <= FirstIndex(q)
           /\ Len(Puts) <= 1
           /\ \A k \in 1..Len(Puts) : Puts[k] = TitlePut(q)

(* C3 *)

\* The warnings of a module run came from its title PUT.
PutWarned ==
    /\ warned
    /\ calls # <<>>
    /\ calls[Len(calls)].method = "PUT"
    /\ result = FailJson(ServiceWarning)

\* What a module run reports when its GETs carry no warnings, check mode or
\* not: the range the search finds, or not found.
ModuleReport ==
    LET hit == Search(Networks).hit
    IN IF hit # <<>>
       THEN ExitJson(new_title_text # <<>>, Name(forest, hit[1]))
       ELSE FailJson(NotFoundMsg)

\* C3 as stated: a check-mode run never issues a PUT, and a run reports a
\* found range exactly when the run with the other check mode does: both
\* report what the search over the same service yields.
C3_DryRunReportsAsReal ==
    /\ check_mode => Puts = <<>>
    /\ (variant = "module" /\ Done /\ (~warned \/ PutWarned)) =>
           result = ModuleReport

\* C3 amended: a check-mode run never issues a PUT and reports what the
\* search yields; the run outside check mode reports the same, unless its
\* title PUT came back with warnings, when it fails with the service's
\* message.
C3_DryRunReportsAsRealUnlessPutFails ==
    /\ check_mode => Puts = <<>>
    /\ (variant = "module" /\ Done /\ (~warned \/ PutWarned)) =>
           \/ result = ModuleReport
           \/ /\ Mutating
              /\ PutWarned
              /\ ModuleReport.status = "exit_json"
              /\ Puts = <<TitlePut(Search(Networks).hit[1])>>

C3_Witness ==
    /\ variant = "module" /\ check_mode /\ new_title_text # <<>>
    /\ Done /\ ~warned
    /\ result.status = "exit_json" /\ result.changed
    /\ ChildGets # <<>>

(* C4 *)

\* C4: in the module and in the lookup, a response with warnings aborts the
\* run: it has ended, in an error carrying the service's message and not in
\* a found or not-found result, and (the run being over) no call follows.
C4_WarningsAbort ==
    warned => /\ Done
              /\ result.status \in {"fail_json", "raise"}
              /\ result.message = ServiceWarning

(* C5 *)

\* The range recurse_ranges is called on in this step, if any: the next of
\* net_ranges, or the child whose GET came back with its payload read.
VisitedNow ==
    IF pc = "ranges" THEN {IndexOf(net_ranges[rangeIdx].ref)}
    ELSE IF /\ pc = "children"
            /\ Len(Gets') > Len(Gets)
            /\ result'.status # "raise"
            /\ ~(result'.status = "fail_json" /\ Puts' = <<>>)
    THEN {IndexOf(Gets'[Len(Gets')].url)}
    ELSE {}

\* C5: a visited range matches exactly when its prefix length equals the
\* target and the lower-cased title substring occurs in its lower-cased
\* Title, whatever the casing of either; a match shows as the run ending
\* with the range reported or with its title PUT.
C5_CaseInsensitiveMatch ==
    [][\A i \in VisitedNow :
          Qualifies(i)
             <=> (result'.status \in {"exit_json", "return"} \/ Puts' # <<>>)]_vars

(* C6 *)

HasUnparseable ==
    \E k \in 1..Len(network) :
        Strip(network[k]) # <<>> /\ ~Parseable(Strip(network[k]))

\* C7 as stated: with a network identifier that is not address/prefix the
\* run fails with a parse error before any API call is issued.
C7_UnparseableFailsFirst ==
    HasUnparseable => /\ calls = <<>>
                      /\ Done => result.status = "raise"

\* The entries the loop over networks queries: all of them, stripped,
\* without the empty ones in the module.
Queried == IF variant = "module" THEN StrippedNonEmpty ELSE StrippedAll

\* C7 amended: a network identifier is never parsed: each entry the loop
\* reaches is sent, stripped, as the filter of a Ranges query, parseable or
\* not, and a run that ends not found has queried every one of them.
C7_UnparseableQueriedAsFilter ==
    /\ Len(RangesGets) <= Len(Queried)
    /\ \A k \in 1..Len(RangesGets) :
          RangesGets[k].databody = <<"filter", Queried[k]>>
    /\ pc \in {"ranges", "children"} => Len(RangesGets) = netIdx
    /\ (Done /\ NotFoundReported) => Len(RangesGets) = Len(Queried)

C7_Witness ==
    /\ pc = "ranges"
    /\ ~Parseable(Networks[netIdx])
    /\ RangesGets[Len(RangesGets)].databody = <<"filter", <<"n">>>>

(* C8 *)

\* C8: a child GET is issued only below a range that did not match, whose
\* prefix length is strictly less than the target and whose childRanges is
\* not empty; a range with a prefix length >= the target is never
\* descended into.
C8_DescendsBelowTargetOnly ==
    \A k \in 1..Len(ChildGets) :
        LET parent == forest[IndexOf(ChildGets[k].url)].parent
        IN /\ parent # 0
           /\ forest[parent].prefix < target_prefix_length
           /\ ~Matches(ObjectOf(parent, StartProps(parent)))

(* C9 *)

Outcomes == {"exit_json", "fail_json", "return", "raise"}

\* C9: every run terminates, in one of the outcomes found, not found or
\* error, and stays there.
C9_Terminates == <>(Done /\ result.status \in Outcomes)

C9_Witness ==
    /\ Done
    /\ Len(ChildGets) >= 1
    /\ Len(RangesGets) >= 2
    /\ NotFoundReported

(* C10 *)

\* What the module does with the arguments when no response carries
\* warnings: the range its search finds and the GETs it issues.
ModuleSearch == Search(StrippedNonEmpty)

SearchEquivalent ==
    LET found == ModuleSearch
    IN /\ Gets = found.gets
       /\ variant = "lookup" =>
             /\ Puts = <<>>
             /\ result = Returned(IF found.hit = <<>> THEN <<>>
                                  ELSE <<Name(forest, found.hit[1])>>)
       /\ variant = "module" =>
             result = IF found.hit = <<>> THEN FailJson(NotFoundMsg)
                      ELSE ExitJson(new_title_text # <<>>,
                                    Name(forest, found.hit[1]))

\* C10 as stated: on the same arguments and responses without warnings the
\* lookup returns [c] exactly when the module exits with message c, returns
\* [] exactly when the module fails not found, both issue the same GETs,
\* and the lookup issues no other call.
C10_LookupEqualsModule ==
    (Done /\ ~warned) => SearchEquivalent

\* C10 amended: the same, for a network list without empty entries (the
\* module drops an empty entry, the lookup queries it).
C10_LookupEqualsModuleNoEmptyEntry ==
    (Done /\ ~warned /\ \A k \in 1..Len(network) : network[k] # <<>>) =>
        SearchEquivalent

C10_Witness ==
    /\ variant = "lookup" /\ Done /\ ~warned
    /\ \A k \in 1..Len(network) : network[k] # <<>>
    /\ result.status = "return" /\ result.message # <<>>
    /\ ChildGets # <<>>

====
